---- MODULE Spec2Model ----
(***************************************************************************)
(* Model of the transactions module of citrineos-core                      *)
(* (TransactionsModule: the TransactionEvent, MeterValues and              *)
(* StatusNotification handlers, the cost calculation and the periodic      *)
(* cost updater).                                                          *)
(*                                                                         *)
(* Every handler invocation is a process whose steps are the points where  *)
(* the async function resumes after awaiting a call on shared state; the   *)
(* code between two such points runs without interruption (one JavaScript  *)
(* turn) and is one step.  Awaited calls that only read data no operation  *)
(* of the module writes (tariffs, authorizations, signatures) are folded   *)
(* into the step that follows them.                                        *)
(*                                                                         *)
(* Optional values (undefined / null / absent field) are <<>> when absent  *)
(* and <<v>> when present.                                                 *)
(*                                                                         *)
(* The security event repository (SecurityEventRepository) is modelled     *)
(* beside the module: its store and the last read of it.                   *)
(***************************************************************************)
EXTENDS Integers, Sequences, FiniteSets, TLC

VARIABLES
    costUpdatedInterval,            \* this._costUpdatedInterval
    sendCostUpdatedOnMeterValue,    \* this._sendCostUpdatedOnMeterValue
    transactions,                   \* transaction store: sequence, index = database id
    meterValues,                    \* meter value store: set of records
    reservations,                   \* reservation store: (id, stationId) -> record
    tariffs,                        \* tariff store: stationId -> optional price
    connectorStatus,                \* status notification store: stationId -> status
    deviceModel,                    \* device model store: stationId -> the Actual
                                    \* attributes of TariffCostCtrlr / Tariff / Available
    handler,                        \* handler invocations: slot -> local state
    tasks,                          \* setInterval timers, by the slot that armed them
    securityEvents,                 \* security event store: set of records
    securityRead                    \* the last readByStationIdAndTimestamps: its
                                    \* arguments and what it returned

vars == << costUpdatedInterval, sendCostUpdatedOnMeterValue, transactions,
           meterValues, reservations, tariffs, connectorStatus, deviceModel,
           handler, tasks, securityEvents, securityRead >>

stores == << transactions, meterValues, reservations, connectorStatus >>
security == << securityEvents, securityRead >>

\* What no operation of the transactions module writes.
config == << costUpdatedInterval, sendCostUpdatedOnMeterValue, tariffs, deviceModel,
             security >>

\* What no operation of the security event repository writes.
module == << stores, costUpdatedInterval, sendCostUpdatedOnMeterValue, tariffs,
             deviceModel, handler, tasks >>

----------------------------------------------------------------------------
(* Bounds *)

MaxHandlers == 2

\* The largest cached total, in tenths of a kWh.
MaxKwh == 125

\* The latest time of a security event or of a bound of a read, in
\* milliseconds since the epoch.
MaxTime == 2

----------------------------------------------------------------------------
(* Values *)

Handlers == 1 .. MaxHandlers

Stations == {"CS1", "CS2"}

TransactionIds == {"T1", "T2"}

ReservationIds == {0, 7}

IdTokens == {"tokAccepted", "tokBlocked"}

EventTypes == {"Started", "Updated", "Ended"}

Intervals == { <<>>, <<0>>, <<-1>>, <<2>> }

TenantOf(stationId) == IF stationId = "CS1" THEN "tenant1" ELSE "tenant2"

\* JavaScript truthiness of an optional number: undefined, null and 0 are falsy.
Truthy(opt) == opt # <<>> /\ opt[1] # 0

\* JavaScript truthiness of an optional boolean.
TruthyBool(opt) == opt # <<>> /\ opt[1]

MeterValueTypes == [kwh : {1, 2}, signatureValid : BOOLEAN]

NoMessage ==
    [action |-> "none", stationId |-> "none", tenantId |-> "none",
     correlationId |-> 0, eventType |-> "none", transactionId |-> "none",
     idToken |-> "none", reservationId |-> <<>>, meterValue |-> <<>>]

TransactionEventMessages(stations, transactionIds, eventTypes, idTokens, rids, mvs) ==
    { [action |-> "TransactionEvent", stationId |-> s, tenantId |-> TenantOf(s),
       correlationId |-> 0, eventType |-> e, transactionId |-> t,
       idToken |-> k, reservationId |-> r, meterValue |-> v] :
        s \in stations, e \in eventTypes, t \in transactionIds,
        k \in idTokens, r \in rids, v \in mvs }

MeterValuesMessages(stations, mvs) ==
    { [NoMessage EXCEPT !.action = "MeterValues", !.stationId = s,
                        !.tenantId = TenantOf(s), !.meterValue = <<v>>] :
        s \in stations, v \in mvs }

StatusNotificationMessages(stations) ==
    { [NoMessage EXCEPT !.action = "StatusNotification", !.stationId = s,
                        !.tenantId = TenantOf(s)] : s \in stations }

IdleHandler ==
    [pc |-> "idle", msg |-> NoMessage, log |-> <<>>, sent |-> <<>>,
     transaction |-> <<>>, totalKwh |-> <<>>, totalCost |-> <<>>,
     pending |-> {}, error |-> <<>>]

NoTask ==
    [armed |-> FALSE, stationId |-> "none", transactionId |-> "none",
     interval |-> 0, tenantId |-> "none", pc |-> "idle", phase |-> FALSE,
     transaction |-> <<>>, totalKwh |-> <<>>, totalCost |-> <<>>,
     calls |-> <<>>, log |-> <<>>]

----------------------------------------------------------------------------
(* Repositories and services the module calls *)

\* Database ids of the transactions of (stationId, transactionId).
TransactionDbIds(store, stationId, transactionId) ==
    { i \in 1 .. Len(store) :
        store[i].stationId = stationId /\ store[i].transactionId = transactionId }

MinOf(S) == CHOOSE i \in S : \A j \in S : i <= j

\* The row of a transaction that was deleted from the store: database ids are
\* not given out again, and no query finds the row.
DeletedTransaction ==
    [stationId |-> "none", transactionId |-> "none", isActive |-> FALSE,
     totalKwh |-> <<>>]

\* ITransactionEventRepository.readTransactionByStationIdAndTransactionId
readTransactionByStationIdAndTransactionId(store, stationId, transactionId) ==
    LET ids == TransactionDbIds(store, stationId, transactionId) IN
    IF ids = {} THEN <<>>
    ELSE << [id |-> MinOf(ids),
             transactionId |-> store[MinOf(ids)].transactionId,
             isActive |-> store[MinOf(ids)].isActive,
             totalKwh |-> store[MinOf(ids)].totalKwh] >>

\* ITransactionEventRepository.createOrUpdateTransactionByTransactionEventAndStationId:
\* one atomic create-or-update keyed by (stationId, transactionId).
createOrUpdateTransactionByTransactionEventAndStationId(store, event, stationId) ==
    LET ids == TransactionDbIds(store, stationId, event.transactionId) IN
    IF ids = {}
    THEN Append(store, [stationId |-> stationId,
                        transactionId |-> event.transactionId,
                        isActive |-> event.eventType # "Ended",
                        totalKwh |-> <<>>])
    ELSE [store EXCEPT ![MinOf(ids)].isActive =
                            IF event.eventType = "Ended" THEN FALSE ELSE @]

\* The meter values an event carries, recorded against database id dbId.
EventMeterValues(event, dbId) ==
    IF event.meterValue = <<>> THEN {}
    ELSE { [transactionDatabaseId |-> dbId, kwh |-> event.meterValue[1][i].kwh,
            correlationId |-> event.correlationId, index |-> i] :
              i \in 1 .. Len(event.meterValue[1]) }

\* ITransactionEventRepository.createMeterValue: an independent append; the call
\* passes the meter value alone, so the record names no transaction (0).
createMeterValue(store, msg, i) ==
    store \cup { [transactionDatabaseId |-> 0, kwh |-> msg.meterValue[1][i].kwh,
                  correlationId |-> msg.correlationId, index |-> i] }

\* ITransactionEventRepository.readAllMeterValuesByTransactionDataBaseId
readAllMeterValuesByTransactionDataBaseId(store, dbId) ==
    { mv \in store : mv.transactionDatabaseId = dbId }

RECURSIVE SumKwh(_)
SumKwh(S) ==
    IF S = {} THEN 0
    ELSE LET mv == CHOOSE x \in S : TRUE IN mv.kwh + SumKwh(S \ {mv})

\* MeterValueUtils.getTotalKwh
getTotalKwh(mvs) == SumKwh(mvs)

\* IReservationRepository.updateAllByQuery(values, {where: {id, stationId}})
updateAllByQuery(store, values, id, stationId) ==
    [k \in DOMAIN store |->
        IF k = <<id, stationId>> THEN values ELSE store[k]]

\* Values of a variable attribute: strings, "" standing for no value.
AttributeValues == {"", "false", "true"}

\* What the device model may hold for TariffCostCtrlr / Tariff / Available of a
\* station: no attribute, or one with any value.
AttributeLists == { <<>> } \cup { <<v>> : v \in AttributeValues }

\* JavaScript Boolean(value) of an attribute value: only no value at all and the
\* empty string are falsy.
Boolean(value) == value # ""

\* IDeviceModelRepository.readAllByQuerystring({stationId, component_name:
\* 'TariffCostCtrlr', variable_instance: 'Tariff', variable_name: 'Available',
\* type: Actual})
readAllByQuerystring(store, stationId) == store[stationId]

\* ITariffRepository.findByStationId
findByStationId(store, stationId) == store[stationId]

\* TransactionService.authorizeIdToken: the outcome for the event's idToken.
authorizeIdToken(event) ==
    [idTokenInfo |-> IF event.idToken = "tokAccepted" THEN "Accepted" ELSE "Blocked"]

\* SignedMeterValuesUtil.validateMeterValues: one invalid signature in the batch
\* makes the whole batch invalid.
validateMeterValues(stationId, mvs) ==
    \A i \in 1 .. Len(mvs) : mvs[i].signatureValid

\* AbstractModule.sendCallResultWithMessage: the call result for the inbound
\* message, carrying its correlation id.
sendCallResultWithMessage(sent, msg, response) ==
    Append(sent, [response EXCEPT !.correlationId = msg.correlationId])

TransactionEventResponse(status, totalCost) ==
    [correlationId |-> 0, action |-> "TransactionEvent",
     idTokenInfo |-> status, totalCost |-> totalCost,
     chargingPriority |-> <<>>, updatedPersonalMessage |-> <<>>]

EmptyResponse(action) ==
    [correlationId |-> 0, action |-> action, idTokenInfo |-> "none",
     totalCost |-> <<>>]

----------------------------------------------------------------------------
(* Cost calculation *)

\* Costs are counted in thousandths of the currency unit, energy in tenths of a
\* kWh, prices in thousandths per tenth of a kWh.
UnitsPerCent == 10

\* Mutant: the cost is rounded to the nearest cent.
roundCost_Nearest(cost) ==
    ((cost + UnitsPerCent \div 2) \div UnitsPerCent) * UnitsPerCent

\* TransactionsModule._roundCost: Math.floor(cost * 100) / 100
roundCost(cost) == (cost \div UnitsPerCent) * UnitsPerCent

\* Mutant: without a tariff the total is still derived, and priced at zero.
calculateTotalCostRead_DerivesWithoutTariff(stationId, transactionDbId, totalKwh) ==
    LET tariff == findByStationId(tariffs, stationId)
        price == IF tariff = <<>> THEN 0 ELSE tariff[1]
        kwh == getTotalKwh(
                 readAllMeterValuesByTransactionDataBaseId(meterValues,
                                                           transactionDbId))
    IN  IF Truthy(totalKwh)
        THEN [derive |-> FALSE, totalKwh |-> totalKwh,
              totalCost |-> roundCost(totalKwh[1] * price),
              log |-> <<"findTariff">>]
        ELSE [derive |-> TRUE, totalKwh |-> <<kwh>>,
              totalCost |-> roundCost(kwh * price),
              log |-> <<"findTariff", "readMeterValues">>]

\* _calculateTotalCost up to its first write: the tariff lookup, the test of
\* totalKwh and, when the total is derived, the read of the meter values.
\* derive: the derived total is still to be written to the transaction.
calculateTotalCostRead(stationId, transactionDbId, totalKwh) ==
    LET tariff == findByStationId(tariffs, stationId) IN
    IF tariff = <<>>
    THEN [derive |-> FALSE, totalKwh |-> totalKwh, totalCost |-> 0,
          log |-> <<"findTariff">>]
    ELSE IF Truthy(totalKwh)
    THEN [derive |-> FALSE, totalKwh |-> totalKwh,
          totalCost |-> roundCost(totalKwh[1] * tariff[1]),
          log |-> <<"findTariff">>]
    ELSE LET kwh == getTotalKwh(
                      readAllMeterValuesByTransactionDataBaseId(meterValues,
                                                                transactionDbId)) IN
         [derive |-> TRUE, totalKwh |-> <<kwh>>,
          totalCost |-> roundCost(kwh * tariff[1]),
          log |-> <<"findTariff", "readMeterValues">>]

\* Mutant: the update has no where clause and writes every transaction.
updateTotalKwh_AllTransactions(store, transactionDbId, totalKwh) ==
    [i \in 1 .. Len(store) |->
        IF store[i] # DeletedTransaction
        THEN [store[i] EXCEPT !.totalKwh = totalKwh]
        ELSE store[i]]

\* Transaction.update({totalKwh}, {where: {id: transactionDbId}})
updateTotalKwh(store, transactionDbId, totalKwh) ==
    [i \in 1 .. Len(store) |->
        IF i = transactionDbId /\ store[i] # DeletedTransaction
        THEN [store[i] EXCEPT !.totalKwh = totalKwh]
        ELSE store[i]]

----------------------------------------------------------------------------
(* Receiving a message: the dispatcher starts the handler of its action. *)

FirstStep(action) ==
    CASE action = "TransactionEvent" -> "upsert"
      [] action = "MeterValues" -> "create"
      [] OTHER -> "process"

Receive(h, m) ==
    /\ handler[h].pc = "idle"
    /\ \A g \in 1 .. h - 1 : handler[g].pc # "idle"
    /\ handler' = [handler EXCEPT ![h] =
            [IdleHandler EXCEPT
                !.pc = FirstStep(m.action),
                !.msg = [m EXCEPT !.correlationId = h],
                !.pending = IF m.action = "MeterValues"
                            THEN 1 .. Len(m.meterValue[1]) ELSE {}]]
    /\ UNCHANGED << stores, config, tasks >>

\* A repository call of handler h rejects: the handler's promise rejects with it.
Throw(h, op, error) ==
    [handler EXCEPT ![h].pc = "failed",
                    ![h].log = Append(@, op),
                    ![h].error = <<error>>]

RepositoryError(msg) == [code |-> "RepositoryError", correlationId |-> msg.correlationId]

----------------------------------------------------------------------------
(* _handleTransactionEvent *)

\* if (message.payload.reservationId)
HasReservation(msg) == Truthy(msg.reservationId)

\* if (transactionEvent.idToken)
HasIdToken(msg) == msg.idToken # "none"

\* The call the handler awaits next once the transaction is recorded.
AfterUpsert(msg) ==
    IF HasReservation(msg) THEN "reservation"
    ELSE IF HasIdToken(msg) THEN "authorize" ELSE "readTransaction"

AfterReservation(msg) ==
    IF HasIdToken(msg) THEN "authorize" ELSE "readTransaction"

\* Mutant: a Started event always creates a transaction record.
TE_CreateOrUpdate_StartedCreates(h) ==
    LET m == handler[h].msg
        store == IF m.eventType = "Started"
                 THEN Append(transactions,
                             [stationId |-> m.stationId,
                              transactionId |-> m.transactionId,
                              isActive |-> TRUE, totalKwh |-> <<>>])
                 ELSE createOrUpdateTransactionByTransactionEventAndStationId(
                          transactions, m, m.stationId)
        dbId == MinOf(TransactionDbIds(store, m.stationId, m.transactionId))
    IN  /\ handler[h].pc = "upsert"
        /\ transactions' = store
        /\ meterValues' = meterValues \cup EventMeterValues(m, dbId)
        /\ handler' = [handler EXCEPT ![h].pc = AfterUpsert(m),
                                      ![h].log = Append(@, "createOrUpdate")]
        /\ UNCHANGED << reservations, connectorStatus, config, tasks >>

\* Mutant: the transaction is recorded only for Started and Updated events.
TE_CreateOrUpdate_NotForEnded(h) ==
    LET m == handler[h].msg
        store == createOrUpdateTransactionByTransactionEventAndStationId(
                     transactions, m, m.stationId)
        dbId == MinOf(TransactionDbIds(store, m.stationId, m.transactionId))
        skip == m.eventType = "Ended"
    IN  /\ handler[h].pc = "upsert"
        /\ transactions' = IF skip THEN transactions ELSE store
        /\ meterValues' = IF skip THEN meterValues
                          ELSE meterValues \cup EventMeterValues(m, dbId)
        /\ handler' = [handler EXCEPT
              ![h].pc = AfterUpsert(m),
              ![h].log = IF skip THEN @ ELSE Append(@, "createOrUpdate")]
        /\ UNCHANGED << reservations, connectorStatus, config, tasks >>

\* Mutant: recording an Ended event clears the timers of its transaction.
TE_CreateOrUpdate_CancelsOnEnded(h) ==
    LET m == handler[h].msg
        store == createOrUpdateTransactionByTransactionEventAndStationId(
                     transactions, m, m.stationId)
        dbId == MinOf(TransactionDbIds(store, m.stationId, m.transactionId))
    IN  /\ handler[h].pc = "upsert"
        /\ transactions' = store
        /\ meterValues' = meterValues \cup EventMeterValues(m, dbId)
        /\ handler' = [handler EXCEPT ![h].pc = AfterUpsert(m),
                                      ![h].log = Append(@, "createOrUpdate")]
        /\ tasks' = [t \in DOMAIN tasks |->
                        IF /\ m.eventType = "Ended"
                           /\ tasks[t].stationId = m.stationId
                           /\ tasks[t].transactionId = m.transactionId
                        THEN NoTask ELSE tasks[t]]
        /\ UNCHANGED << reservations, connectorStatus, config >>

\* await createOrUpdateTransactionByTransactionEventAndStationId(payload, stationId)
TE_CreateOrUpdate(h) ==
    LET m == handler[h].msg
        store == createOrUpdateTransactionByTransactionEventAndStationId(
                     transactions, m, m.stationId)
        dbId == MinOf(TransactionDbIds(store, m.stationId, m.transactionId))
    IN  /\ handler[h].pc = "upsert"
        /\ transactions' = store
        /\ meterValues' = meterValues \cup EventMeterValues(m, dbId)
        /\ handler' = [handler EXCEPT ![h].pc = AfterUpsert(m),
                                      ![h].log = Append(@, "createOrUpdate")]
        /\ UNCHANGED << reservations, connectorStatus, config, tasks >>

\* Mutant: the failure of the create-or-update is caught and the handler goes on.
TE_CreateOrUpdateFails_Caught(h) ==
    /\ handler[h].pc = "upsert"
    /\ handler' = [handler EXCEPT ![h].pc = AfterUpsert(handler[h].msg),
                                  ![h].log = Append(@, "createOrUpdate")]
    /\ UNCHANGED << stores, config, tasks >>

\* The create-or-update rejects.
TE_CreateOrUpdateFails(h) ==
    /\ handler[h].pc = "upsert"
    /\ handler' = Throw(h, "createOrUpdate", RepositoryError(handler[h].msg))
    /\ UNCHANGED << stores, config, tasks >>

\* await this._reservationRepository.updateAllByQuery(...)
TE_UpdateReservation(h) ==
    LET m == handler[h].msg IN
    /\ handler[h].pc = "reservation"
    /\ reservations' = updateAllByQuery(
            reservations,
            [terminatedByTransaction |-> m.transactionId, isActive |-> FALSE],
            m.reservationId[1], m.stationId)
    /\ handler' = [handler EXCEPT ![h].pc = AfterReservation(m),
                                  ![h].log = Append(@, "updateReservation")]
    /\ UNCHANGED << transactions, meterValues, connectorStatus, config, tasks >>

\* Mutant: the interval is tested for being defined, not for being truthy.
ShouldUpdateCost_IntervalDefined(msg, response) ==
    /\ msg.eventType = "Started"
    /\ response.idTokenInfo = "Accepted"
    /\ costUpdatedInterval # <<>>

\* The condition under which the cost updater is started.
ShouldUpdateCost(msg, response) ==
    /\ msg.eventType = "Started"
    /\ response.idTokenInfo = "Accepted"
    /\ Truthy(costUpdatedInterval)

\* _updateCost: setInterval(...); the timer's handle is dropped.
updateCost(stationId, transactionId, interval, tenantId) ==
    [armed |-> TRUE, stationId |-> stationId, transactionId |-> transactionId,
     interval |-> interval, tenantId |-> tenantId, pc |-> "idle",
     phase |-> FALSE,
     transaction |-> <<>>, totalKwh |-> <<>>, totalCost |-> <<>>,
     calls |-> <<>>, log |-> <<>>]

\* Mutant: the authorization result is sent only when it is Accepted.
TE_Authorize_SendsAcceptedOnly(h) ==
    LET m == handler[h].msg
        response == TransactionEventResponse(authorizeIdToken(m).idTokenInfo, <<>>)
        arm == ShouldUpdateCost(m, response)
        send == response.idTokenInfo = "Accepted"
    IN  /\ handler[h].pc = "authorize"
        /\ handler' = [handler EXCEPT
              ![h].pc = "done",
              ![h].sent = IF send THEN sendCallResultWithMessage(@, m, response)
                          ELSE @,
              ![h].log = @ \o <<"authorize">>
                           \o (IF send THEN <<"sendCallResult">> ELSE <<>>)
                           \o (IF arm THEN <<"updateCost">> ELSE <<>>)]
        /\ tasks' = IF arm
                    THEN [tasks EXCEPT ![h] =
                            updateCost(m.stationId, m.transactionId,
                                       costUpdatedInterval[1], m.tenantId)]
                    ELSE tasks
        /\ UNCHANGED << stores, config >>

\* Mutant: the idToken branch reads the transaction and attaches the cost of
\* its cached total to the response of an Ended or Updated event.
TE_Authorize_AttachesTotalCost(h) ==
    LET m == handler[h].msg
        transaction == readTransactionByStationIdAndTransactionId(
                           transactions, m.stationId, m.transactionId)
        cost == IF m.eventType = "Started" \/ transaction = <<>> THEN <<>>
                ELSE << calculateTotalCostRead(m.stationId, transaction[1].id,
                                               transaction[1].totalKwh).totalCost >>
        response == TransactionEventResponse(authorizeIdToken(m).idTokenInfo, cost)
        arm == ShouldUpdateCost(m, response)
    IN  /\ handler[h].pc = "authorize"
        /\ handler' = [handler EXCEPT
              ![h].pc = "done",
              ![h].sent = sendCallResultWithMessage(@, m, response),
              ![h].log = @ \o <<"authorize", "sendCallResult">>
                           \o (IF arm THEN <<"updateCost">> ELSE <<>>)]
        /\ tasks' = IF arm
                    THEN [tasks EXCEPT ![h] =
                            updateCost(m.stationId, m.transactionId,
                                       costUpdatedInterval[1], m.tenantId)]
                    ELSE tasks
        /\ UNCHANGED << stores, config >>

\* The idToken branch: authorize, send the result, start the cost updater.
TE_Authorize(h) ==
    LET m == handler[h].msg
        response == TransactionEventResponse(authorizeIdToken(m).idTokenInfo, <<>>)
        arm == ShouldUpdateCost(m, response)
    IN  /\ handler[h].pc = "authorize"
        /\ handler' = [handler EXCEPT
              ![h].pc = "done",
              ![h].sent = sendCallResultWithMessage(@, m, response),
              ![h].log = @ \o <<"authorize", "sendCallResult">>
                           \o (IF arm THEN <<"updateCost">> ELSE <<>>)]
        /\ tasks' = IF arm
                    THEN [tasks EXCEPT ![h] =
                            updateCost(m.stationId, m.transactionId,
                                       costUpdatedInterval[1], m.tenantId)]
                    ELSE tasks
        /\ UNCHANGED << stores, config >>

\* Mutant: the cost of an Ended event is computed only while the transaction is
\* active.
NeedsTotalCost_EndedWhenActive(msg, transaction) ==
    /\ transaction # <<>>
    /\ transaction[1].isActive
    /\ \/ msg.eventType = "Updated" /\ TruthyBool(sendCostUpdatedOnMeterValue)
       \/ msg.eventType = "Ended"

\* Mutant: the cost of an Updated event is computed whatever
\* sendCostUpdatedOnMeterValue says.
NeedsTotalCost_IgnoresSetting(msg, transaction) ==
    \/ /\ msg.eventType = "Updated"
       /\ transaction # <<>>
       /\ transaction[1].isActive
    \/ /\ msg.eventType = "Ended"
       /\ transaction # <<>>

\* The cost is computed for an Updated event of an active transaction when
\* sendCostUpdatedOnMeterValue is set, and for an Ended event of a known one.
NeedsTotalCost(msg, transaction) ==
    \/ /\ msg.eventType = "Updated"
       /\ transaction # <<>>
       /\ transaction[1].isActive
       /\ TruthyBool(sendCostUpdatedOnMeterValue)
    \/ /\ msg.eventType = "Ended"
       /\ transaction # <<>>

\* await readTransactionByStationIdAndTransactionId(stationId, transactionId)
TE_ReadTransaction(h) ==
    LET m == handler[h].msg
        transaction == readTransactionByStationIdAndTransactionId(
                           transactions, m.stationId, m.transactionId)
    IN  /\ handler[h].pc = "readTransaction"
        /\ handler' = [handler EXCEPT
              ![h].pc = IF NeedsTotalCost(m, transaction) THEN "cost" ELSE "respond",
              ![h].transaction = transaction,
              ![h].log = Append(@, "readTransaction")]
        /\ UNCHANGED << stores, config, tasks >>

\* response.totalCost = await this._calculateTotalCost(stationId, transaction.id,
\* transaction.totalKwh), up to the write of the derived total.
TE_CalculateTotalCost(h) ==
    LET m == handler[h].msg
        t == handler[h].transaction[1]
        r == calculateTotalCostRead(m.stationId, t.id, t.totalKwh)
    IN  /\ handler[h].pc = "cost"
        /\ handler' = [handler EXCEPT
              ![h].pc = IF r.derive THEN "costWrite" ELSE "respond",
              ![h].totalKwh = r.totalKwh,
              ![h].totalCost = <<r.totalCost>>,
              ![h].log = @ \o <<"calculateTotalCost">> \o r.log]
        /\ UNCHANGED << stores, config, tasks >>

\* Mutant: the write stores the total of the meter values recorded when it
\* runs, not the one derived at the read.
TE_WriteTotalKwh_WritesCurrentTotal(h) ==
    LET dbId == handler[h].transaction[1].id IN
    /\ handler[h].pc = "costWrite"
    /\ transactions' = updateTotalKwh(transactions, dbId,
            << SumKwh({ mv \in meterValues : mv.transactionDatabaseId = dbId }) >>)
    /\ handler' = [handler EXCEPT ![h].pc = "respond",
                                  ![h].log = Append(@, "updateTotalKwh")]
    /\ UNCHANGED << meterValues, reservations, connectorStatus, config, tasks >>

\* await Transaction.update({totalKwh}, {where: {id: transactionDbId}})
TE_WriteTotalKwh(h) ==
    /\ handler[h].pc = "costWrite"
    /\ transactions' = updateTotalKwh(transactions, handler[h].transaction[1].id,
                                      handler[h].totalKwh)
    /\ handler' = [handler EXCEPT ![h].pc = "respond",
                                  ![h].log = Append(@, "updateTotalKwh")]
    /\ UNCHANGED << meterValues, reservations, connectorStatus, config, tasks >>

\* Mutant: invalid signatures reject the event as they reject MeterValues.
TE_Respond_RejectsInvalid(h) ==
    LET m == handler[h].msg
        valid == m.meterValue = <<>> \/ validateMeterValues(m.stationId, m.meterValue[1])
        response == TransactionEventResponse("none", handler[h].totalCost)
    IN  /\ handler[h].pc = "respond"
        /\ handler' =
             IF ~valid
             THEN [handler EXCEPT
                     ![h].pc = "failed",
                     ![h].log = @ \o (IF m.eventType = "Updated"
                                        THEN <<"readDeviceModel">> ELSE <<>>)
                                  \o <<"validateMeterValues">>,
                     ![h].error = << [code |-> "SecurityError",
                                      correlationId |-> m.correlationId] >>]
             ELSE [handler EXCEPT
                     ![h].pc = "done",
                     ![h].sent = sendCallResultWithMessage(@, m, response),
                     ![h].log = @ \o (IF m.eventType = "Updated"
                                        THEN <<"readDeviceModel">> ELSE <<>>)
                                  \o (IF m.meterValue # <<>>
                                        THEN <<"validateMeterValues">> ELSE <<>>)
                                  \o <<"sendCallResult">>]
        /\ UNCHANGED << stores, config, tasks >>

\* const supportTariff = tariffAvailableAttributes.length !== 0 &&
\*                       Boolean(tariffAvailableAttributes[0].value)
SupportTariff(attributes) == Len(attributes) # 0 /\ Boolean(attributes[1])

\* if (supportTariff && transaction && transaction.isActive), for an Updated event
ChecksTariff(msg, transaction, attributes) ==
    /\ msg.eventType = "Updated"
    /\ SupportTariff(attributes)
    /\ transaction # <<>>
    /\ transaction[1].isActive

\* Mutant: the tariff check puts the tariff into the personal message.
Respond_SetsPersonalMessage(h, attributes) ==
    LET m == handler[h].msg
        checks == ChecksTariff(m, handler[h].transaction, attributes)
        response == [TransactionEventResponse("none", handler[h].totalCost) EXCEPT
                        !.updatedPersonalMessage =
                            IF checks THEN <<"tariff">> ELSE <<>>]
    IN  [handler[h] EXCEPT
            !.pc = "done",
            !.sent = sendCallResultWithMessage(@, m, response),
            !.log = @ \o (IF m.eventType = "Updated"
                            THEN <<"readDeviceModel">> ELSE <<>>)
                      \o (IF checks THEN <<"debugTariff">> ELSE <<>>)
                      \o (IF m.meterValue # <<>>
                            THEN <<"validateMeterValues">> ELSE <<>>)
                      \o <<"sendCallResult">>]

\* The rest of the anonymous branch, as the handler's state after it: the device
\* model read of an Updated event (attributes: what the read returns) and the
\* tariff check, the signature validation of the event's meter values, the call
\* result.
Respond(h, attributes) ==
    LET m == handler[h].msg
        valid == m.meterValue = <<>> \/ validateMeterValues(m.stationId, m.meterValue[1])
        checks == ChecksTariff(m, handler[h].transaction, attributes)
        response == TransactionEventResponse("none", handler[h].totalCost)
    IN  [handler[h] EXCEPT
            !.pc = "done",
            !.sent = sendCallResultWithMessage(@, m, response),
            !.log = @ \o (IF m.eventType = "Updated"
                            THEN <<"readDeviceModel">> ELSE <<>>)
                      \o (IF checks THEN <<"debugTariff">> ELSE <<>>)
                      \o (IF m.meterValue # <<>>
                            THEN <<"validateMeterValues">> ELSE <<>>)
                      \o (IF ~valid THEN <<"warn">> ELSE <<>>)
                      \o <<"sendCallResult">>]

TE_Respond(h) ==
    /\ handler[h].pc = "respond"
    /\ handler' = [handler EXCEPT ![h] =
            Respond(h, readAllByQuerystring(deviceModel, handler[h].msg.stationId))]
    /\ UNCHANGED << stores, config, tasks >>

----------------------------------------------------------------------------
(* _handleMeterValues *)

\* Mutant: the handler goes on as soon as one createMeterValue has resolved
\* (Promise.race in place of Promise.all).
MV_CreateMeterValue_Race(h, i) ==
    LET m == handler[h].msg IN
    /\ handler[h].pc \in {"create", "failed", "done"}
    /\ i \in handler[h].pending
    /\ meterValues' = createMeterValue(meterValues, m, i)
    /\ handler' = [handler EXCEPT
          ![h].pending = @ \ {i},
          ![h].pc = IF @ = "create" THEN "validate" ELSE @,
          ![h].log = Append(@, "createMeterValue")]
    /\ UNCHANGED << transactions, reservations, connectorStatus, config, tasks >>

\* One createMeterValue of the Promise.all resolves.
MV_CreateMeterValue(h, i) ==
    LET m == handler[h].msg IN
    /\ handler[h].pc \in {"create", "failed"}
    /\ i \in handler[h].pending
    /\ meterValues' = createMeterValue(meterValues, m, i)
    /\ handler' = [handler EXCEPT
          ![h].pending = @ \ {i},
          ![h].pc = IF @ = "create" /\ handler[h].pending = {i}
                    THEN "validate" ELSE @,
          ![h].log = Append(@, "createMeterValue")]
    /\ UNCHANGED << transactions, reservations, connectorStatus, config, tasks >>

\* One createMeterValue rejects: Promise.all rejects at once, the other calls
\* it started still run.
MV_CreateMeterValueFails(h, i) ==
    /\ handler[h].pc \in {"create", "failed"}
    /\ i \in handler[h].pending
    /\ handler' = [handler EXCEPT
          ![h].pending = @ \ {i},
          ![h].pc = "failed",
          ![h].log = Append(@, "createMeterValue"),
          ![h].error = IF @ = <<>> THEN <<RepositoryError(handler[h].msg)>> ELSE @]
    /\ UNCHANGED << stores, config, tasks >>

OcppError(correlationId, code) == [code |-> code, correlationId |-> correlationId]

\* The signature validation, then the OcppError or the call result.
MV_Validate(h) ==
    LET m == handler[h].msg
        valid == validateMeterValues(m.stationId, m.meterValue[1])
    IN  /\ handler[h].pc = "validate"
        /\ handler' =
             IF ~valid
             THEN Throw(h, "validateMeterValues",
                        OcppError(m.correlationId, "SecurityError"))
             ELSE [handler EXCEPT
                     ![h].pc = "done",
                     ![h].sent = sendCallResultWithMessage(@, m,
                                     EmptyResponse("MeterValues")),
                     ![h].log = @ \o <<"validateMeterValues", "sendCallResult">>]
        /\ UNCHANGED << stores, config, tasks >>

----------------------------------------------------------------------------
(* _handleStatusNotification *)

\* StatusNotificationService.processStatusNotification, then the call result.
SN_Process(h) ==
    LET m == handler[h].msg IN
    /\ handler[h].pc = "process"
    /\ connectorStatus' = [connectorStatus EXCEPT ![m.stationId] = "Reported"]
    /\ handler' = [handler EXCEPT
          ![h].pc = "done",
          ![h].sent = sendCallResultWithMessage(@, m,
                          EmptyResponse("StatusNotification")),
          ![h].log = @ \o <<"processStatusNotification", "sendCallResult">>]
    /\ UNCHANGED << transactions, meterValues, reservations, config, tasks >>

SN_ProcessFails(h) ==
    /\ handler[h].pc = "process"
    /\ handler' = Throw(h, "processStatusNotification",
                        RepositoryError(handler[h].msg))
    /\ UNCHANGED << stores, config, tasks >>

----------------------------------------------------------------------------
(* The callback of _updateCost's setInterval: one tick of task t *)

\* AbstractModule.sendCall(stationId, tenantId, CallAction.CostUpdated, request)
sendCall(calls, stationId, tenantId, totalCost, transactionId) ==
    Append(calls, [stationId |-> stationId, tenantId |-> tenantId,
                   action |-> "CostUpdated", totalCost |-> totalCost,
                   transactionId |-> transactionId])

\* Mutant: the tick tests only that the transaction exists.
TickPushesCost_AnyTransaction(transaction) == transaction # <<>>

\* if (transaction && transaction.isActive)
TickPushesCost(transaction) == transaction # <<>> /\ transaction[1].isActive

\* The timer fires: the transaction is read again.  phase is a history value
\* of the task: the parity of the ticks counted so far.
TickRead(t, phase) ==
    LET k == tasks[t]
        transaction == readTransactionByStationIdAndTransactionId(
                           transactions, k.stationId, k.transactionId)
    IN  /\ k.armed
        /\ k.pc = "idle"
        /\ tasks' = [tasks EXCEPT
              ![t].pc = IF TickPushesCost(transaction) THEN "cost" ELSE "idle",
              ![t].phase = phase,
              ![t].transaction = transaction,
              ![t].totalKwh = <<>>,
              ![t].totalCost = <<>>,
              ![t].calls = <<>>,
              ![t].log = <<"readTransaction">>]
        /\ UNCHANGED << stores, config, handler >>

\* A tick, not counted.
Tick_ReadTransaction(t) == TickRead(t, tasks[t].phase)

\* A tick, counted.
Tick_ReadTransactionCounted(t) == TickRead(t, ~tasks[t].phase)

\* const cost = await this._calculateTotalCost(stationId, transaction.id), up to
\* the write of the derived total; without a write the request is sent at once.
Tick_CalculateTotalCost(t) ==
    LET k == tasks[t]
        r == calculateTotalCostRead(k.stationId, k.transaction[1].id, <<>>)
    IN  /\ k.armed
        /\ k.pc = "cost"
        /\ tasks' = [tasks EXCEPT
              ![t].pc = IF r.derive THEN "costWrite" ELSE "idle",
              ![t].totalKwh = r.totalKwh,
              ![t].totalCost = <<r.totalCost>>,
              ![t].calls = IF r.derive THEN @
                           ELSE sendCall(@, k.stationId, k.tenantId, r.totalCost,
                                         k.transaction[1].transactionId),
              ![t].log = @ \o <<"calculateTotalCost">> \o r.log
                           \o (IF r.derive THEN <<>> ELSE <<"sendCall">>)]
        /\ UNCHANGED << stores, config, handler >>

\* The derived total is written, the cost is returned and the request is sent.
Tick_WriteTotalKwh(t) ==
    LET k == tasks[t] IN
    /\ k.armed
    /\ k.pc = "costWrite"
    /\ transactions' = updateTotalKwh(transactions, k.transaction[1].id, k.totalKwh)
    /\ tasks' = [tasks EXCEPT
          ![t].pc = "idle",
          ![t].calls = sendCall(@, k.stationId, k.tenantId, k.totalCost[1],
                                k.transaction[1].transactionId),
          ![t].log = @ \o <<"updateTotalKwh", "sendCall">>]
    /\ UNCHANGED << meterValues, reservations, connectorStatus, config, handler >>

----------------------------------------------------------------------------
(* The transaction store is shared: another party deletes a transaction *)

DeleteTransaction(i) ==
    /\ i \in 1 .. Len(transactions)
    /\ transactions[i] # DeletedTransaction
    /\ transactions' = [transactions EXCEPT ![i] = DeletedTransaction]
    /\ UNCHANGED << meterValues, reservations, connectorStatus, config,
                    handler, tasks >>

----------------------------------------------------------------------------
(* The security event repository *)

\* The time value of an Invalid Date.
NaN == -1

Times == 0 .. MaxTime

\* Date objects: a time value, or Invalid Date.
Dates == Times \cup {NaN}

OptionalDates == { <<>> } \cup { <<d>> : d \in Dates }

NoRead ==
    [stationId |-> "none", from |-> <<>>, to |-> <<>>, error |-> <<>>, rows |-> {}]

NoSecurityEvents == securityEvents = {} /\ securityRead = NoRead

\* Date.prototype.toISOString of a valid date: fixed-width decimal fields, the
\* most significant first.
toISOString(d) == << d \div 10, d % 10 >>

\* from?.toISOString()
OptionalISOString(date) == IF date = <<>> THEN <<>> ELSE << toISOString(date[1]) >>

\* The database casts an ISO string compared with the timestamp column.
ParseTimestamp(iso) == iso[1] * 10 + iso[2]

\* !value of an optional string: undefined or the empty string.
Not(string) == string = <<>> \/ string[1] = <<>>

\* Mutant: an upper bound alone is ignored.
generateTimestampQuery_IgnoresToAlone(from, to) ==
    IF Not(from) THEN <<>>
    ELSE IF ~Not(from) /\ Not(to)
    THEN << [op |-> "gte", args |-> << from[1] >>] >>
    ELSE << [op |-> "between", args |-> << from[1], to[1] >>] >>

\* SecurityEventRepository.generateTimestampQuery: the condition on timestamp,
\* <<>> for {}.
generateTimestampQuery(from, to) ==
    IF Not(from) /\ Not(to) THEN <<>>
    ELSE IF Not(from) /\ ~Not(to)
    THEN << [op |-> "lte", args |-> << to[1] >>] >>
    ELSE IF ~Not(from) /\ Not(to)
    THEN << [op |-> "gte", args |-> << from[1] >>] >>
    ELSE << [op |-> "between", args |-> << from[1], to[1] >>] >>

\* Sequelize operators on the timestamp column: Op.lte is <=, Op.gte is >=,
\* Op.between is BETWEEN a AND b, both ends included.
MatchesTimestamp(timestamp, query) ==
    \/ query = <<>>
    \/ /\ query # <<>>
       /\ LET op == query[1].op
              a == ParseTimestamp(query[1].args[1])
          IN  \/ op = "lte" /\ timestamp <= a
              \/ op = "gte" /\ timestamp >= a
              \/ /\ op = "between"
                 /\ a <= timestamp
                 /\ timestamp <= ParseTimestamp(query[1].args[2])

\* SequelizeRepository.readAllByQuery({where: {stationId, ...timestampQuery}})
readAllByQuery(store, stationId, timestampQuery) ==
    { e \in store :
        e.stationId = stationId /\ MatchesTimestamp(e.timestamp, timestampQuery) }

\* SecurityEventRepository.readByStationIdAndTimestamps; toISOString of an
\* Invalid Date throws a RangeError.
readByStationIdAndTimestamps(store, stationId, from, to) ==
    IF (from # <<>> /\ from[1] = NaN) \/ (to # <<>> /\ to[1] = NaN)
    THEN [error |-> <<"RangeError">>, rows |-> {}]
    ELSE [error |-> <<>>,
          rows |-> readAllByQuery(store, stationId,
                       generateTimestampQuery(OptionalISOString(from),
                                              OptionalISOString(to)))]

\* SecurityEventRepository.createByStationId(value, stationId)
SE_CreateByStationId(stationId, timestamp) ==
    /\ securityEvents' = securityEvents
            \cup { [stationId |-> stationId, timestamp |-> timestamp] }
    /\ UNCHANGED << securityRead, module >>

\* A caller reads the security events of a station.
SE_ReadByStationIdAndTimestamps(stationId, from, to) ==
    LET r == readByStationIdAndTimestamps(securityEvents, stationId, from, to) IN
    /\ securityRead' = [stationId |-> stationId, from |-> from, to |-> to,
                        error |-> r.error, rows |-> r.rows]
    /\ UNCHANGED << securityEvents, module >>

----------------------------------------------------------------------------
(* Specification *)

ValidMeterValue == [kwh |-> 1, signatureValid |-> TRUE]
InvalidMeterValue == [kwh |-> 2, signatureValid |-> FALSE]

\* Events of both stations, with and without idToken, and the other requests.
CoreMessages ==
    TransactionEventMessages(Stations, TransactionIds, EventTypes,
                             {"none", "tokAccepted"},
                             { <<>> }, { << <<ValidMeterValue>> >> })
    \cup TransactionEventMessages({"CS1"}, {"T1"}, {"Started"}, {"none"},
                                  { <<7>> }, { <<>> })
    \cup MeterValuesMessages({"CS1"}, { <<ValidMeterValue, ValidMeterValue>>,
                                        <<ValidMeterValue, InvalidMeterValue>> })
    \cup StatusNotificationMessages({"CS1"})

InitWith(intervals, sendCosts) ==
    /\ costUpdatedInterval \in intervals
    /\ sendCostUpdatedOnMeterValue \in sendCosts
    /\ transactions = <<>>
    /\ meterValues = {}
    /\ reservations = [k \in ReservationIds \X Stations |->
                          [terminatedByTransaction |-> "none", isActive |-> TRUE]]
    /\ tariffs = [s \in Stations |-> IF s = "CS1" THEN <<33>> ELSE <<>>]
    /\ connectorStatus = [s \in Stations |-> "Unknown"]
    /\ deviceModel = [s \in Stations |-> IF s = "CS1" THEN <<"true">> ELSE <<>>]
    /\ handler = [h \in Handlers |-> IdleHandler]
    /\ NoSecurityEvents
    /\ tasks = [h \in Handlers |-> NoTask]

\* A step of the handler in slot h.
HandlerStep(h) ==
    \/ TE_CreateOrUpdate(h)
    \/ TE_CreateOrUpdateFails(h)
    \/ TE_UpdateReservation(h)
    \/ TE_Authorize(h)
    \/ TE_ReadTransaction(h)
    \/ TE_CalculateTotalCost(h)
    \/ TE_WriteTotalKwh(h)
    \/ TE_Respond(h)
    \/ \E i \in handler[h].pending : MV_CreateMeterValue(h, i)
    \/ \E i \in handler[h].pending : MV_CreateMeterValueFails(h, i)
    \/ MV_Validate(h)
    \/ SN_Process(h)
    \/ SN_ProcessFails(h)

\* A step of a tick of the timer armed by the handler in slot h.
TickStep(h) ==
    \/ Tick_ReadTransaction(h)
    \/ Tick_CalculateTotalCost(h)
    \/ Tick_WriteTotalKwh(h)

\* One event of every shape (event type, idToken, reservationId, meter values),
\* at station CS1.
EventMessages ==
    TransactionEventMessages({"CS1"}, {"T1"}, EventTypes, {"none"} \cup IdTokens,
                             { <<>> } \cup { <<r>> : r \in ReservationIds },
                             { <<>>, << <<ValidMeterValue>> >>,
                               << <<InvalidMeterValue>> >> })

\* The life of one transaction of station CS1.
BackgroundMessages ==
    TransactionEventMessages({"CS1"}, {"T1"}, {"Started"}, {"tokAccepted"},
                             { <<>> }, { << <<ValidMeterValue>> >> })
    \cup TransactionEventMessages({"CS1"}, {"T1"}, {"Ended"}, {"none"},
                                  { <<>> }, { <<>> })

\* Slot 1 receives any message; the other slots run beside it the events of
\* one transaction.
Inbox(h) ==
    IF h = 1 THEN EventMessages \cup CoreMessages ELSE BackgroundMessages

Init == InitWith({ <<2>> }, { <<TRUE>> })

Next ==
    \E h \in Handlers :
        \/ \E m \in Inbox(h) : Receive(h, m)
        \/ HandlerStep(h)
        \/ TickStep(h)

Spec == Init /\ [][Next]_vars

\* Every configured interval, with the events that may or may not start the
\* cost updater in slot 1.
IntervalMessages ==
    TransactionEventMessages({"CS1"}, {"T1"}, EventTypes, {"none"} \cup IdTokens,
                             { <<>> }, { << <<ValidMeterValue>> >> })

IntervalInbox(h) ==
    IF h = 1 THEN IntervalMessages \cup CoreMessages ELSE BackgroundMessages

InitIntervals == InitWith(Intervals, { <<TRUE>> })

NextIntervals ==
    \E h \in Handlers :
        \/ \E m \in IntervalInbox(h) : Receive(h, m)
        \/ HandlerStep(h)
        \/ TickStep(h)

SpecIntervals == InitIntervals /\ [][NextIntervals]_vars

----------------------------------------------------------------------------
(* The cost calculation: events without idToken, over a store that already
   holds a transaction, under every setting of sendCostUpdatedOnMeterValue *)

\* The totalKwh a stored transaction may have cached: none, 0, half a kWh.
CachedTotals == { <<>>, <<0>>, <<5>> }

\* The store at start: one transaction T1, of either station.
CostSeeds ==
    { << [stationId |-> s, transactionId |-> "T1", isActive |-> a,
          totalKwh |-> k] >> : s \in Stations, a \in BOOLEAN, k \in CachedTotals }

\* The meter values behind a cached total.
SeedMeterValues(store) ==
    IF store # <<>> /\ Truthy(store[1].totalKwh)
    THEN { [transactionDatabaseId |-> 1, kwh |-> store[1].totalKwh[1],
            correlationId |-> 0, index |-> 1] }
    ELSE {}

InitCost ==
    /\ costUpdatedInterval = <<2>>
    /\ sendCostUpdatedOnMeterValue \in { <<>>, <<FALSE>>, <<TRUE>> }
    /\ transactions \in CostSeeds
    /\ meterValues = SeedMeterValues(transactions)
    /\ reservations = [k \in ReservationIds \X Stations |->
                          [terminatedByTransaction |-> "none", isActive |-> TRUE]]
    /\ tariffs = [s \in Stations |-> IF s = "CS1" THEN <<33>> ELSE <<>>]
    /\ connectorStatus = [s \in Stations |-> "Unknown"]
    /\ deviceModel = [s \in Stations |-> IF s = "CS1" THEN <<"true">> ELSE <<>>]
    /\ handler = [h \in Handlers |-> IdleHandler]
    /\ NoSecurityEvents
    /\ tasks = [h \in Handlers |-> NoTask]

\* Events of T1 without idToken.
CostMessages ==
    TransactionEventMessages(Stations, {"T1"}, {"Started", "Ended"}, {"none"},
                             { <<>> }, { <<>> })
    \cup TransactionEventMessages(Stations, {"T1"}, {"Updated"}, {"none"},
                                  { <<>> }, { << <<ValidMeterValue>> >> })

CostBackground ==
    TransactionEventMessages({"CS1"}, {"T1"}, {"Updated"}, {"none"},
                             { <<>> }, { << <<ValidMeterValue>> >> })

CostInbox(h) == IF h = 1 THEN CostMessages ELSE CostBackground

\* A step of the handler of an event without idToken whose repository calls
\* succeed.
EventStep(h) ==
    \/ TE_CreateOrUpdate(h)
    \/ TE_ReadTransaction(h)
    \/ TE_CalculateTotalCost(h)
    \/ TE_WriteTotalKwh(h)
    \/ TE_Respond(h)

\* No transaction has been deleted so far.
NoneDeleted == \A j \in 1 .. Len(transactions) : transactions[j] # DeletedTransaction

NextCost ==
    \/ \E h \in Handlers :
          \/ \E m \in CostInbox(h) : Receive(h, m)
          \/ EventStep(h)
    \/ \E i \in 1 .. Len(transactions) : NoneDeleted /\ DeleteTransaction(i)

SpecCost == InitCost /\ [][NextCost]_vars

----------------------------------------------------------------------------
(* The rounding of the cost: one handler prices every total up to MaxKwh at
   every price *)

\* Price per kWh of the tariff: 0.01, 0.30, 0.33.
Prices == { <<1>>, <<30>>, <<33>> }

InitRound ==
    /\ costUpdatedInterval = <<2>>
    /\ sendCostUpdatedOnMeterValue = <<TRUE>>
    /\ \E k \in 0 .. MaxKwh :
          transactions = << [stationId |-> "CS1", transactionId |-> "T1",
                             isActive |-> TRUE, totalKwh |-> <<k>>] >>
    /\ meterValues = SeedMeterValues(transactions)
    /\ reservations = [k \in ReservationIds \X Stations |->
                          [terminatedByTransaction |-> "none", isActive |-> TRUE]]
    /\ \E p \in Prices : tariffs = [s \in Stations |-> IF s = "CS1" THEN p ELSE <<>>]
    /\ connectorStatus = [s \in Stations |-> "Unknown"]
    /\ deviceModel = [s \in Stations |-> IF s = "CS1" THEN <<"true">> ELSE <<>>]
    /\ handler = [h \in Handlers |-> IdleHandler]
    /\ NoSecurityEvents
    /\ tasks = [h \in Handlers |-> NoTask]

RoundMessages ==
    TransactionEventMessages({"CS1"}, {"T1"}, {"Updated"}, {"none"},
                             { <<>> }, { << <<ValidMeterValue>> >> })
    \cup TransactionEventMessages({"CS1"}, {"T1"}, {"Ended"}, {"none"},
                                  { <<>> }, { <<>> })

NextRound ==
    \/ \E m \in RoundMessages : Receive(1, m)
    \/ EventStep(1)

SpecRound == InitRound /\ [][NextRound]_vars

----------------------------------------------------------------------------
(* The periodic cost updater under fair scheduling: the life of one
   transaction, which may also be deleted, with every tick counted *)

\* A step of a counted tick of the timer armed by the handler in slot t.
CountedTickStep(t) ==
    \/ Tick_ReadTransactionCounted(t)
    \/ Tick_CalculateTotalCost(t)
    \/ Tick_WriteTotalKwh(t)

\* Slot 1 receives the Started event that arms the timer, the other slots the
\* Ended event of the transaction.
FairInbox(h) ==
    { m \in BackgroundMessages : m.eventType = "Started" <=> h = 1 }

NextFair ==
    \/ \E h \in Handlers :
          \/ \E m \in FairInbox(h) : Receive(h, m)
          \/ EventStep(h)
          \/ TE_Authorize(h)
          \/ CountedTickStep(h)
    \/ \E i \in 1 .. Len(transactions) : NoneDeleted /\ DeleteTransaction(i)

\* The event loop runs every timer that is due and resumes every tick whose
\* awaited call has returned.
FairTicks == \A t \in Handlers : WF_vars(CountedTickStep(t))

SpecFair == Init /\ [][NextFair]_vars /\ FairTicks

----------------------------------------------------------------------------
(* The tariff check of Updated events: every content of the device model for
   station CS1, an Updated event without idToken beside the life of its
   transaction *)

InitTariff ==
    /\ costUpdatedInterval = <<2>>
    /\ sendCostUpdatedOnMeterValue = <<TRUE>>
    /\ transactions = <<>>
    /\ meterValues = {}
    /\ reservations = [k \in ReservationIds \X Stations |->
                          [terminatedByTransaction |-> "none", isActive |-> TRUE]]
    /\ tariffs = [s \in Stations |-> IF s = "CS1" THEN <<33>> ELSE <<>>]
    /\ connectorStatus = [s \in Stations |-> "Unknown"]
    /\ \E a \in AttributeLists :
          deviceModel = [s \in Stations |-> IF s = "CS1" THEN a ELSE <<>>]
    /\ handler = [h \in Handlers |-> IdleHandler]
    /\ NoSecurityEvents
    /\ tasks = [h \in Handlers |-> NoTask]

TariffMessages ==
    TransactionEventMessages({"CS1"}, {"T1"}, {"Updated"}, {"none"},
                             { <<>> }, { <<>>, << <<ValidMeterValue>> >> })

TariffInbox(h) == IF h = 1 THEN TariffMessages ELSE BackgroundMessages

NextTariff ==
    \E h \in Handlers :
        \/ \E m \in TariffInbox(h) : Receive(h, m)
        \/ EventStep(h)
        \/ TE_Authorize(h)
        \/ TickStep(h)

SpecTariff == InitTariff /\ [][NextTariff]_vars

----------------------------------------------------------------------------
(* Concurrent cost calculations of one transaction: every handler receives an
   event without idToken of transaction T1 of station CS1, with or without
   meter values, and the handlers interleave at their awaits *)

RaceMessages ==
    TransactionEventMessages({"CS1"}, {"T1"}, {"Updated", "Ended"}, {"none"},
                             { <<>> },
                             { <<>>, << <<ValidMeterValue>> >>,
                               << <<ValidMeterValue, ValidMeterValue>> >> })

NextRace ==
    \E h \in Handlers :
        \/ \E m \in RaceMessages : Receive(h, m)
        \/ EventStep(h)

SpecRace == Init /\ [][NextRace]_vars

----------------------------------------------------------------------------
(* Events with idToken: every event type, accepted and blocked tokens, with and
   without reservation, with valid and invalid meter values, beside the life of
   the transaction and the ticks of its cost updater *)

AuthorizeMessages ==
    TransactionEventMessages({"CS1"}, {"T1"}, EventTypes, IdTokens,
                             { <<>> } \cup { <<r>> : r \in ReservationIds },
                             { <<>>, << <<ValidMeterValue>> >>,
                               << <<InvalidMeterValue>> >> })

AuthorizeInbox(h) == IF h = 1 THEN AuthorizeMessages ELSE BackgroundMessages

NextAuthorize ==
    \E h \in Handlers :
        \/ \E m \in AuthorizeInbox(h) : Receive(h, m)
        \/ TE_UpdateReservation(h)
        \/ TE_Authorize(h)
        \/ EventStep(h)
        \/ TickStep(h)

SpecAuthorize == Init /\ [][NextAuthorize]_vars

----------------------------------------------------------------------------
(* Reads of the security event store: every station, every pair of bounds,
   over every content of the store *)

NextSecurity ==
    \/ \E s \in Stations, t \in Times : SE_CreateByStationId(s, t)
    \/ \E s \in Stations, from \in OptionalDates, to \in OptionalDates :
          SE_ReadByStationIdAndTimestamps(s, from, to)

SpecSecurity == Init /\ [][NextSecurity]_vars

----------------------------------------------------------------------------
(* Claims *)

IsTransactionEvent(h) == handler[h].msg.action = "TransactionEvent"

\* C1: in the TransactionEvent handler the create-or-update of the transaction
\* is the first call made for every received event, whatever the event carries:
\* nothing is logged, sent or armed before it, a handler that got past it has it
\* as its first and only create-or-update and (unless the call failed) the
\* transaction of (stationId, transactionId) is in the store.
C1_CreateOrUpdateFirst ==
    \A h \in Handlers :
        IsTransactionEvent(h) =>
            LET l == handler[h].log
                m == handler[h].msg
            IN  /\ handler[h].pc = "upsert" =>
                      l = <<>> /\ handler[h].sent = <<>> /\ ~tasks[h].armed
                /\ handler[h].pc # "upsert" =>
                      /\ l # <<>>
                      /\ l[1] = "createOrUpdate"
                      /\ \A i \in 2 .. Len(l) : l[i] # "createOrUpdate"
                /\ handler[h].pc \notin {"upsert", "failed"} =>
                      TransactionDbIds(transactions, m.stationId,
                                       m.transactionId) # {}

\* C1 witness: an Ended event carrying idToken, reservationId and meter values
\* has been handled to its end.
C1_Witness ==
    \E h \in Handlers :
        /\ handler[h].pc = "done"
        /\ handler[h].msg.eventType = "Ended"
        /\ handler[h].msg.idToken # "none"
        /\ handler[h].msg.reservationId = <<7>>
        /\ handler[h].msg.meterValue # <<>>
        /\ Len(handler[h].log) >= 4

Count(seq, x) == Cardinality({ i \in 1 .. Len(seq) : seq[i] = x })

\* C2: no inbound request ever gets two call results, every call result carries
\* the correlation id of its request, a handler that ends normally has sent
\* exactly one, and a handler ends otherwise only on a repository failure or,
\* for MeterValues, on invalid signatures; a handler that has not ended can
\* always take its next step.
C2_ExactlyOneCallResult ==
    \A h \in Handlers :
        LET m == handler[h].msg IN
        /\ Len(handler[h].sent) <= 1
        /\ \A i \in 1 .. Len(handler[h].sent) :
              /\ handler[h].sent[i].correlationId = m.correlationId
              /\ handler[h].sent[i].action = m.action
        /\ handler[h].pc = "done" => Len(handler[h].sent) = 1
        /\ handler[h].pc = "failed" =>
              \/ handler[h].error[1].code = "RepositoryError"
              \/ /\ m.action = "MeterValues"
                 /\ ~validateMeterValues(m.stationId, m.meterValue[1])
        /\ handler[h].pc \notin {"idle", "done", "failed"} => ENABLED HandlerStep(h)

\* C2 witness: a TransactionEvent with a blocked idToken and a second request
\* have both been answered.
C2_Witness ==
    \E h, g \in Handlers :
        /\ h # g
        /\ handler[h].pc = "done" /\ handler[g].pc = "done"
        /\ handler[h].msg.idToken = "tokBlocked"
        /\ Len(handler[h].sent) = 1 /\ Len(handler[g].sent) = 1

\* The handler in slot h has recorded its event's transaction.
Recorded(h) ==
    IsTransactionEvent(h) /\ handler[h].pc \notin {"idle", "upsert", "failed"}

ActiveTransactions(stationId, transactionId) ==
    { i \in TransactionDbIds(transactions, stationId, transactionId) :
        transactions[i].isActive }

AcceptedStart(h) ==
    /\ IsTransactionEvent(h)
    /\ handler[h].msg.eventType = "Started"
    /\ handler[h].msg.idToken # "none"
    /\ authorizeIdToken(handler[h].msg).idTokenInfo = "Accepted"

\* C4: a handled Started event with an accepted idToken has armed exactly one
\* cost updater, for its (stationId, transactionId), when costUpdatedInterval is
\* greater than 0, and none when it is 0 or undefined.
C4_ArmedOnAcceptedStart ==
    \A h \in Handlers :
        (AcceptedStart(h) /\ handler[h].pc = "done") =>
            /\ (costUpdatedInterval # <<>> /\ costUpdatedInterval[1] > 0) =>
                  /\ tasks[h].armed
                  /\ tasks[h].stationId = handler[h].msg.stationId
                  /\ tasks[h].transactionId = handler[h].msg.transactionId
                  /\ Count(handler[h].log, "updateCost") = 1
            /\ (costUpdatedInterval = <<>> \/ costUpdatedInterval = <<0>>) =>
                  /\ ~tasks[h].armed
                  /\ Count(handler[h].log, "updateCost") = 0

\* C4 witness: with interval 2 an accepted Started event has armed its task.
C4_Witness ==
    \E h \in Handlers :
        /\ AcceptedStart(h)
        /\ handler[h].pc = "done"
        /\ costUpdatedInterval = <<2>>
        /\ tasks[h].armed

\* C5 (as claimed): a task is armed only by a Started event whose idToken is
\* accepted and only when the configured interval is a positive number.
C5_ArmedOnlyWhenPositive ==
    \A h \in Handlers :
        tasks[h].armed =>
            /\ AcceptedStart(h)
            /\ costUpdatedInterval # <<>>
            /\ costUpdatedInterval[1] > 0

TasksOf(stationId, transactionId) ==
    { h \in Handlers :
        /\ tasks[h].armed
        /\ tasks[h].stationId = stationId
        /\ tasks[h].transactionId = transactionId }

\* C6 (as claimed): there is at most one live cost-updater task per
\* (stationId, transactionId).
C6_OneTaskPerTransaction ==
    \A s \in Stations, t \in TransactionIds :
        Cardinality(TasksOf(s, t)) <= 1

\* What a finished tick of task t has to show, and what a running one.
C7_TickState ==
    \A t \in Handlers :
        tasks[t].armed =>
            LET k == tasks[t]
                m == handler[t].msg
                active == k.transaction # <<>> /\ k.transaction[1].isActive
                tariff == tariffs[m.stationId]
            IN  /\ k.pc \in {"cost", "costWrite"} => active /\ k.calls = <<>>
                /\ (k.pc = "idle" /\ k.log # <<>> /\ ~active) =>
                      /\ k.calls = <<>>
                      /\ k.totalCost = <<>>
                      /\ k.log = <<"readTransaction">>
                /\ (k.pc = "idle" /\ k.log # <<>> /\ active) =>
                      /\ Count(k.log, "calculateTotalCost") = 1
                      /\ k.totalCost =
                            IF tariff = <<>> THEN <<0>>
                            ELSE << ((k.totalKwh[1] * tariff[1]) \div UnitsPerCent)
                                       * UnitsPerCent >>
                      /\ k.calls = << [stationId |-> m.stationId,
                                       tenantId |-> m.tenantId,
                                       action |-> "CostUpdated",
                                       totalCost |-> k.totalCost[1],
                                       transactionId |-> m.transactionId] >>

\* The step that starts a tick reads the transaction of the (stationId,
\* transactionId) the task was armed for.
C7_TickReads ==
    \A t \in Handlers :
        (tasks[t].armed /\ tasks[t].pc = "idle" /\ tasks'[t] # tasks[t]) =>
            tasks'[t].transaction =
                readTransactionByStationIdAndTransactionId(
                    transactions, handler[t].msg.stationId,
                    handler[t].msg.transactionId)

\* C7: every tick re-reads the transaction by (stationId, transactionId); a
\* tick that finds it missing or inactive computes no cost and sends nothing;
\* a tick that finds it active computes the cost once and sends exactly one
\* CostUpdated {totalCost, transactionId} to the station under the tenant id
\* of the message that armed the task.
C7_Tick == []C7_TickState /\ [][C7_TickReads]_vars

\* C7 witness: a tick has sent a CostUpdated with a cost above zero.
C7_Witness ==
    \E t \in Handlers :
        /\ tasks[t].armed
        /\ tasks[t].pc = "idle"
        /\ Len(tasks[t].calls) = 1
        /\ tasks[t].calls[1].totalCost > 0

\* A tick has found the transaction inactive and pushed nothing.
C7_SkippedTickReached ==
    \E t \in Handlers :
        /\ tasks[t].armed
        /\ tasks[t].pc = "idle"
        /\ tasks[t].log = <<"readTransaction">>
        /\ tasks[t].transaction # <<>>
        /\ ~tasks[t].transaction[1].isActive

IsMeterValues(h) == handler[h].msg.action = "MeterValues"

MeterValueRecorded(h, i) ==
    [transactionDatabaseId |-> 0, kwh |-> handler[h].msg.meterValue[1][i].kwh,
     correlationId |-> handler[h].msg.correlationId, index |-> i] \in meterValues

SignaturesValid(h) ==
    \A i \in 1 .. Len(handler[h].msg.meterValue[1]) :
        handler[h].msg.meterValue[1][i].signatureValid

\* C8: the MeterValues handler calls createMeterValue once per meter value of
\* the payload and all of them have completed when the validation starts; when
\* the validation fails the handler ends with an OcppError SecurityError that
\* carries the correlation id, no call result is sent and every meter value of
\* the payload is (and stays) recorded.
C8_MeterValuesRecordedBeforeRejection ==
    \A h \in Handlers :
        IsMeterValues(h) =>
            LET n == Len(handler[h].msg.meterValue[1])
                l == handler[h].log
                rejected == /\ handler[h].pc = "failed"
                            /\ handler[h].error[1].code = "SecurityError"
            IN  /\ Count(l, "createMeterValue") + Cardinality(handler[h].pending) = n
                /\ (handler[h].pc = "validate" \/ Count(l, "validateMeterValues") > 0) =>
                      /\ handler[h].pending = {}
                      /\ \A i \in 1 .. n : l[i] = "createMeterValue"
                      /\ \A i \in 1 .. n : MeterValueRecorded(h, i)
                /\ Count(l, "validateMeterValues") <= 1
                /\ rejected =>
                      /\ ~SignaturesValid(h)
                      /\ handler[h].error[1].correlationId = handler[h].msg.correlationId
                      /\ handler[h].sent = <<>>
                /\ handler[h].pc = "done" => SignaturesValid(h)

\* C8 witness: a MeterValues request with an invalid signature was rejected with
\* its two meter values recorded.
C8_Witness ==
    \E h \in Handlers :
        /\ IsMeterValues(h)
        /\ handler[h].pc = "failed"
        /\ handler[h].error[1].code = "SecurityError"
        /\ MeterValueRecorded(h, 1) /\ MeterValueRecorded(h, 2)

\* An Updated event whose meter values fail the signature validation.
UpdatedWithInvalidSignature(h) ==
    /\ IsTransactionEvent(h)
    /\ handler[h].msg.eventType = "Updated"
    /\ handler[h].msg.meterValue # <<>>
    /\ \E i \in 1 .. Len(handler[h].msg.meterValue[1]) :
          ~handler[h].msg.meterValue[1][i].signatureValid

\* No error but that of a failed create-or-update.
NoErrorButRepository(h) ==
    handler[h].pc = "failed" =>
        /\ handler[h].error[1].code = "RepositoryError"
        /\ handler[h].log = <<"createOrUpdate">>

\* C9 (as claimed): every handled Updated event with invalid meter-value
\* signatures, with or without idToken, raised no error, got a call result and
\* left a warning.
C9_WarningWithOrWithoutIdToken ==
    \A h \in Handlers :
        UpdatedWithInvalidSignature(h) =>
            /\ NoErrorButRepository(h)
            /\ handler[h].pc = "done" =>
                  /\ Len(handler[h].sent) = 1
                  /\ Count(handler[h].log, "warn") = 1

\* C9 (amended): an Updated event with invalid meter-value signatures raises no
\* error and gets its call result; without idToken the signatures are validated
\* and one warning is recorded, with an idToken the call result is the
\* authorization result, nothing is validated and no warning is recorded.
C9_WarningOnlyWithoutIdToken ==
    \A h \in Handlers :
        UpdatedWithInvalidSignature(h) =>
            /\ NoErrorButRepository(h)
            /\ handler[h].pc = "done" =>
                  /\ Len(handler[h].sent) = 1
                  /\ IF handler[h].msg.idToken = "none"
                     THEN /\ Count(handler[h].log, "validateMeterValues") = 1
                          /\ Count(handler[h].log, "warn") = 1
                          /\ handler[h].sent[1].idTokenInfo = "none"
                     ELSE /\ Count(handler[h].log, "validateMeterValues") = 0
                          /\ Count(handler[h].log, "warn") = 0
                          /\ handler[h].sent[1].idTokenInfo # "none"

\* C9 witness: an anonymous Updated event with an invalid signature was answered
\* and the warning recorded.
C9_Witness ==
    \E h \in Handlers :
        /\ UpdatedWithInvalidSignature(h)
        /\ handler[h].msg.idToken = "none"
        /\ handler[h].pc = "done"
        /\ Count(handler[h].log, "warn") = 1

\* The handler in slot h is past the reservation update of its event.
PastReservation(h) ==
    /\ IsTransactionEvent(h)
    /\ handler[h].pc \notin {"idle", "upsert", "reservation", "failed"}

\* C10 (as claimed): once an event carrying a reservationId (any integer) is
\* past the reservation step, the reservation (reservationId, stationId) is
\* inactive and terminated by the event's transaction; every reservation that
\* is no such event's is unchanged.
C10_ReservationTerminated ==
    /\ \A h \in Handlers :
          (PastReservation(h) /\ handler[h].msg.reservationId # <<>>) =>
              reservations[<< handler[h].msg.reservationId[1],
                              handler[h].msg.stationId >>]
                  = [terminatedByTransaction |-> handler[h].msg.transactionId,
                     isActive |-> FALSE]
    /\ \A k \in DOMAIN reservations :
          reservations[k] # [terminatedByTransaction |-> "none", isActive |-> TRUE] =>
              \E h \in Handlers :
                  /\ PastReservation(h)
                  /\ handler[h].msg.reservationId = << k[1] >>
                  /\ handler[h].msg.stationId = k[2]

\* The handler in slot h has called _calculateTotalCost.
Calculated(h) == Count(handler[h].log, "calculateTotalCost") > 0

\* The handler's message is an event without idToken.
IsAnonymousEvent(h) == IsTransactionEvent(h) /\ handler[h].msg.idToken = "none"

\* The tariff of the station of the handler's message.
TariffOf(h) == tariffs[handler[h].msg.stationId]

\* The totalKwh the handler passes to _calculateTotalCost: that of the
\* transaction it read.
Supplied(h) == handler[h].transaction[1].totalKwh

\* A handler of a station without tariff never derives or writes a total, and
\* the cost it computed is 0.
C11_State ==
    \A h \in Handlers :
        (IsTransactionEvent(h) /\ TariffOf(h) = <<>>) =>
            /\ handler[h].pc \notin {"costWrite", "failed"}
            /\ Count(handler[h].log, "readMeterValues") = 0
            /\ Count(handler[h].log, "updateTotalKwh") = 0
            /\ Calculated(h) => handler[h].totalCost = <<0>>
            /\ (Calculated(h) /\ handler[h].pc = "done") =>
                  handler[h].sent[1].totalCost = <<0>>

\* The calculation of a station without tariff is one step that returns 0 and
\* leaves the transactions and the meter values as they are.
C11_Step ==
    \A h \in Handlers :
        (/\ handler[h].pc = "cost"
         /\ TariffOf(h) = <<>>
         /\ handler'[h] # handler[h]) =>
            /\ handler'[h].pc = "respond"
            /\ handler'[h].totalCost = <<0>>
            /\ transactions' = transactions
            /\ meterValues' = meterValues

\* C11: for a station with no tariff record _calculateTotalCost returns 0 for
\* every transaction and every supplied totalKwh (absent, 0 or more), raises no
\* error, reads no meter values and writes no totalKwh.
C11_NoTariffZeroCost == []C11_State /\ [][C11_Step]_vars

\* C11 witness: an Ended event of the station without tariff, whose transaction
\* has a cached total of half a kWh, was answered with totalCost 0.
C11_Witness ==
    \E h \in Handlers :
        /\ handler[h].pc = "done"
        /\ handler[h].msg.stationId = "CS2"
        /\ handler[h].msg.eventType = "Ended"
        /\ handler[h].transaction # <<>>
        /\ Supplied(h) = <<5>>
        /\ handler[h].sent[1].totalCost = <<0>>

\* The total of the meter values recorded against database id dbId.
RecordedKwh(dbId) ==
    SumKwh({ mv \in meterValues : mv.transactionDatabaseId = dbId })

\* With a tariff and no total supplied, the calculation derives the total from
\* the meter values recorded against the transaction and prices it, rounded
\* down to the cent.
C12_DeriveStep ==
    \A h \in Handlers :
        (/\ handler[h].pc = "cost"
         /\ TariffOf(h) # <<>>
         /\ Supplied(h) = <<>>
         /\ handler'[h] # handler[h]) =>
            LET derived == RecordedKwh(handler[h].transaction[1].id) IN
            /\ handler'[h].pc = "costWrite"
            /\ handler'[h].totalKwh = <<derived>>
            /\ handler'[h].totalCost =
                  << ((derived * TariffOf(h)[1]) \div UnitsPerCent) * UnitsPerCent >>
            /\ transactions' = transactions

\* The write puts the derived total on the transaction with the database id
\* the calculation was called with, and changes nothing else.
C12_WriteStep ==
    \A h \in Handlers :
        (handler[h].pc = "costWrite" /\ handler'[h] # handler[h]) =>
            LET id == handler[h].transaction[1].id IN
            /\ \A i \in 1 .. Len(transactions) :
                  transactions'[i] =
                      IF i = id /\ transactions[i] # DeletedTransaction
                      THEN [transactions[i] EXCEPT !.totalKwh = handler[h].totalKwh]
                      ELSE transactions[i]
            /\ Len(transactions') = Len(transactions)
            /\ handler'[h].pc = "respond"
            /\ handler'[h].totalCost = handler[h].totalCost
            /\ handler'[h].totalKwh = handler[h].totalKwh

\* The call result carries the cost the calculation returned; 12.5 kWh at 0.30
\* per kWh cost 3.75.
C12_State ==
    /\ roundCost(125 * 30) = 3750
    /\ \A h \in Handlers :
          (IsAnonymousEvent(h) /\ Calculated(h) /\ handler[h].pc = "done") =>
              handler[h].sent[1].totalCost = handler[h].totalCost

\* C12: with a tariff and no totalKwh supplied, _calculateTotalCost derives the
\* total from all meter values recorded against the transaction's database id,
\* writes it onto the transaction with that id and onto no other, and returns
\* the derived total times the price, rounded down to the cent.
C12_DerivedCached ==
    []C12_State /\ [][C12_DeriveStep]_vars /\ [][C12_WriteStep]_vars

\* C12 witness: a handler derived a total above 0 and wrote it onto its
\* transaction while the store holds another transaction, left alone.
C12_Witness ==
    \E h \in Handlers :
        /\ handler[h].pc \in {"respond", "done"}
        /\ Count(handler[h].log, "updateTotalKwh") = 1
        /\ Supplied(h) = <<>>
        /\ handler[h].totalKwh # <<0>>
        /\ handler[h].totalCost # <<0>>
        /\ transactions[handler[h].transaction[1].id].totalKwh = handler[h].totalKwh
        /\ \E i \in 1 .. Len(transactions) :
              /\ i # handler[h].transaction[1].id
              /\ transactions[i] # DeletedTransaction
              /\ transactions[i].totalKwh # handler[h].totalKwh

\* C13 (as claimed): with a tariff, a totalKwh that is supplied (any value, 0
\* included) is the one the cost is computed from: no meter values are read
\* and no totalKwh is written.
C13_SuppliedNotRederived ==
    \A h \in Handlers :
        (/\ IsAnonymousEvent(h)
         /\ TariffOf(h) # <<>>
         /\ Calculated(h)
         /\ Supplied(h) # <<>>) =>
            /\ handler[h].pc # "costWrite"
            /\ Count(handler[h].log, "readMeterValues") = 0
            /\ Count(handler[h].log, "updateTotalKwh") = 0
            /\ handler[h].totalKwh = Supplied(h)

\* With a tariff, a supplied total above 0 is used as it is.
C13_PositiveSuppliedReached ==
    \E h \in Handlers :
        /\ IsAnonymousEvent(h)
        /\ handler[h].pc = "done"
        /\ TariffOf(h) # <<>>
        /\ Calculated(h)
        /\ Supplied(h) = <<5>>
        /\ Count(handler[h].log, "readMeterValues") = 0
        /\ handler[h].totalCost = <<160>>

\* C14: the rounded cost is the cost rounded down to the cent: a whole number
\* of cents, never above the cost and less than a cent below it; it is the
\* totalCost of the call result.
C14_RoundedDown ==
    \A h \in Handlers :
        (IsAnonymousEvent(h) /\ Calculated(h) /\ TariffOf(h) # <<>>) =>
            LET c == handler[h].totalKwh[1] * TariffOf(h)[1]
                r == handler[h].totalCost[1]
            IN  /\ c >= 0
                /\ r % UnitsPerCent = 0
                /\ r <= c
                /\ c - r < UnitsPerCent
                /\ handler[h].pc = "done" =>
                      handler[h].sent[1].totalCost = <<r>>

\* C14 witness: a cost at least half a cent above a whole number of cents was
\* answered rounded down.
C14_Witness ==
    \E h \in Handlers :
        /\ handler[h].pc = "done"
        /\ Calculated(h)
        /\ TariffOf(h) # <<>>
        /\ (handler[h].totalKwh[1] * TariffOf(h)[1]) % UnitsPerCent >= UnitsPerCent \div 2
        /\ handler[h].sent[1].totalCost[1]
              < handler[h].totalKwh[1] * TariffOf(h)[1]

\* The cost of the total the handler's calculation used.
CostOfTotal(h) ==
    IF TariffOf(h) = <<>> THEN 0
    ELSE ((handler[h].totalKwh[1] * TariffOf(h)[1]) \div UnitsPerCent) * UnitsPerCent

\* An answered Ended event without idToken: without a transaction no cost was
\* computed and the call result has no totalCost; with one, the call result has
\* the cost computed for it.
C15_State ==
    \A h \in Handlers :
        (IsAnonymousEvent(h) /\ handler[h].msg.eventType = "Ended") =>
            /\ handler[h].pc # "failed"
            /\ handler[h].error = <<>>
            /\ handler[h].pc = "done" =>
                  /\ Len(handler[h].sent) = 1
                  /\ IF handler[h].transaction = <<>>
                     THEN /\ ~Calculated(h)
                          /\ handler[h].sent[1].totalCost = <<>>
                     ELSE /\ Count(handler[h].log, "calculateTotalCost") = 1
                          /\ handler[h].sent[1].totalCost = << CostOfTotal(h) >>

\* The transaction the handler goes on with is the one the store holds for
\* (stationId, transactionId) when it reads: none if there is none.
C15_ReadStep ==
    \A h \in Handlers :
        (handler[h].pc = "readTransaction" /\ handler'[h] # handler[h]) =>
            LET m == handler[h].msg
                found == { i \in 1 .. Len(transactions) :
                             /\ transactions[i].stationId = m.stationId
                             /\ transactions[i].transactionId = m.transactionId }
            IN  /\ found = {} <=> handler'[h].transaction = <<>>
                /\ found # {} =>
                      /\ handler'[h].transaction[1].id \in found
                      /\ handler'[h].transaction[1].isActive =
                            transactions[handler'[h].transaction[1].id].isActive
                /\ (found = {} /\ m.eventType = "Ended") => handler'[h].pc = "respond"
                /\ (found # {} /\ m.eventType = "Ended") => handler'[h].pc = "cost"

\* C15: an Ended event without idToken whose transaction is not found gets a
\* call result without totalCost and raises no error; when the transaction is
\* found, active or not and whatever sendCostUpdatedOnMeterValue is, the call
\* result carries the totalCost computed for it.
C15_EndedTotalCost == []C15_State /\ [][C15_ReadStep]_vars

\* C15 witness: an Ended event whose transaction was gone when the handler read
\* it was answered without totalCost.
C15_Witness ==
    \E h \in Handlers :
        /\ IsAnonymousEvent(h)
        /\ handler[h].msg.eventType = "Ended"
        /\ handler[h].pc = "done"
        /\ handler[h].transaction = <<>>
        /\ handler[h].sent[1].totalCost = <<>>

\* An Ended event that found its transaction active was answered with a cost
\* above zero while sendCostUpdatedOnMeterValue is not set.
C15_FoundActiveReached ==
    \E h \in Handlers :
        /\ IsAnonymousEvent(h)
        /\ handler[h].msg.eventType = "Ended"
        /\ handler[h].pc = "done"
        /\ handler[h].transaction # <<>>
        /\ handler[h].transaction[1].isActive
        /\ sendCostUpdatedOnMeterValue # <<TRUE>>
        /\ handler[h].sent[1].totalCost # <<>>
        /\ handler[h].sent[1].totalCost # <<0>>

\* C16: the call result of an Updated event without idToken carries totalCost
\* exactly when the transaction the handler read exists and is active and
\* sendCostUpdatedOnMeterValue is true; that of a Started event without idToken
\* never does; no call result of an event without idToken has a
\* chargingPriority, a personal message or an idTokenInfo.
C16_UpdatedTotalCost ==
    \A h \in Handlers :
        (IsAnonymousEvent(h) /\ handler[h].pc = "done") =>
            LET response == handler[h].sent[1]
                t == handler[h].transaction
            IN  /\ response.chargingPriority = <<>>
                /\ response.updatedPersonalMessage = <<>>
                /\ response.idTokenInfo = "none"
                /\ handler[h].msg.eventType = "Started" =>
                      response.totalCost = <<>>
                /\ handler[h].msg.eventType = "Updated" =>
                      (response.totalCost # <<>> <=>
                          /\ t # <<>>
                          /\ t[1].isActive
                          /\ sendCostUpdatedOnMeterValue = <<TRUE>>)

\* C16 witness: an Updated event of an active transaction was answered with a
\* cost above zero.
C16_Witness ==
    \E h \in Handlers :
        /\ IsAnonymousEvent(h)
        /\ handler[h].msg.eventType = "Updated"
        /\ handler[h].pc = "done"
        /\ sendCostUpdatedOnMeterValue = <<TRUE>>
        /\ handler[h].transaction # <<>>
        /\ handler[h].transaction[1].isActive
        /\ handler[h].sent[1].totalCost # <<>>
        /\ handler[h].sent[1].totalCost[1] > 0

\* An Updated event of an active transaction was answered without totalCost
\* because sendCostUpdatedOnMeterValue is false.
C16_NotConfiguredReached ==
    \E h \in Handlers :
        /\ IsAnonymousEvent(h)
        /\ handler[h].msg.eventType = "Updated"
        /\ handler[h].pc = "done"
        /\ sendCostUpdatedOnMeterValue = <<FALSE>>
        /\ handler[h].transaction # <<>>
        /\ handler[h].transaction[1].isActive
        /\ handler[h].sent[1].totalCost = <<>>

\* C17: a failing create-or-update ends the TransactionEvent handler with the
\* repository's error: the call is the only one the handler made, so there is
\* no reservation update, no authorization, no timer and no call result, and
\* a handler that did go on has its transaction recorded; a failing
\* createMeterValue ends the MeterValues handler with the repository's error,
\* without signature validation and without call result, and a handler that
\* did validate has every meter value recorded.
C17_FailuresPropagate ==
    \A h \in Handlers :
        LET m == handler[h].msg
            l == handler[h].log
            failed == handler[h].pc = "failed"
        IN  /\ (IsTransactionEvent(h) /\ failed) =>
                  /\ handler[h].error =
                        << [code |-> "RepositoryError",
                            correlationId |-> m.correlationId] >>
                  /\ l = <<"createOrUpdate">>
                  /\ handler[h].sent = <<>>
                  /\ ~tasks[h].armed
            /\ (IsTransactionEvent(h) /\ handler[h].pc \notin {"upsert", "failed"}) =>
                  \E i \in 1 .. Len(transactions) :
                      /\ transactions[i].stationId = m.stationId
                      /\ transactions[i].transactionId = m.transactionId
            /\ (IsMeterValues(h) /\ failed
                   /\ handler[h].error[1].code = "RepositoryError") =>
                  /\ handler[h].error[1].correlationId = m.correlationId
                  /\ \A i \in 1 .. Len(l) : l[i] = "createMeterValue"
                  /\ handler[h].sent = <<>>
            /\ (IsMeterValues(h) /\ Count(l, "validateMeterValues") > 0) =>
                  \A i \in 1 .. Len(m.meterValue[1]) : MeterValueRecorded(h, i)
            /\ failed => handler[h].error # <<>>

\* C17 witness: the create-or-update of a Started event with an accepted
\* idToken and reservation 7 failed, the reservation is still active and no
\* timer is armed.
C17_Witness ==
    \E h \in Handlers :
        /\ handler[h].pc = "failed"
        /\ handler[h].msg.eventType = "Started"
        /\ handler[h].msg.idToken = "tokAccepted"
        /\ handler[h].msg.reservationId = <<7>>
        /\ reservations[<<7, "CS1">>].isActive
        /\ ~tasks[h].armed

\* A createMeterValue of a MeterValues request failed while the other meter
\* value of the request was recorded.
C17_MeterValuesFailureReached ==
    \E g \in Handlers :
        /\ IsMeterValues(g)
        /\ handler[g].pc = "failed"
        /\ handler[g].error[1].code = "RepositoryError"
        /\ handler[g].pending = {}
        /\ \E i \in 1 .. Len(handler[g].msg.meterValue[1]) : MeterValueRecorded(g, i)

\* No step disarms a timer or changes what it was armed for.
C18_StaysArmed ==
    \A t \in Handlers :
        tasks[t].armed =>
            /\ tasks'[t].armed
            /\ tasks'[t].stationId = tasks[t].stationId
            /\ tasks'[t].transactionId = tasks[t].transactionId
            /\ tasks'[t].interval = tasks[t].interval

\* C18: an armed cost updater is never cancelled, by no handler (not by the
\* handling of the Ended event of its transaction) and by no tick, and under
\* fair scheduling it ticks again and again for ever, also after its
\* transaction has ended or has been deleted.
C18_NeverCancelled ==
    /\ [][C18_StaysArmed]_vars
    /\ \A t \in Handlers : \A b \in BOOLEAN :
          (tasks[t].armed /\ tasks[t].phase = b) ~> (tasks[t].phase # b)

\* C18 witness: after the Ended event of its transaction was answered, a timer
\* is armed and its last tick, a counted one, found the transaction inactive.
C18_Witness ==
    \E t, h \in Handlers :
        /\ tasks[t].armed
        /\ tasks[t].pc = "idle"
        /\ tasks[t].phase
        /\ tasks[t].log = <<"readTransaction">>
        /\ tasks[t].transaction # <<>>
        /\ ~tasks[t].transaction[1].isActive
        /\ handler[h].pc = "done"
        /\ handler[h].msg.eventType = "Ended"
        /\ handler[h].msg.transactionId = tasks[t].transactionId

\* A timer is armed and its last tick found no transaction.
C18_DeletedReached ==
    \E t \in Handlers :
        /\ tasks[t].armed
        /\ tasks[t].pc = "idle"
        /\ tasks[t].log = <<"readTransaction">>
        /\ tasks[t].transaction = <<>>

\* What the rest of the anonymous branch leaves behind but for the log.
Outcome(h, attributes) ==
    [pc |-> Respond(h, attributes).pc,
     sent |-> Respond(h, attributes).sent,
     error |-> Respond(h, attributes).error,
     totalCost |-> Respond(h, attributes).totalCost]

\* Where the handler reads the device model, whatever the read returns leads to
\* the same call result.
C19_State ==
    \A h \in Handlers :
        (IsAnonymousEvent(h) /\ handler[h].pc = "respond") =>
            \A a, b \in AttributeLists : Outcome(h, a) = Outcome(h, b)

\* The step that reads the device model sends the response built before the
\* read and changes no store and no timer.
C19_Step ==
    \A h \in Handlers :
        (/\ IsAnonymousEvent(h)
         /\ handler[h].pc = "respond"
         /\ handler'[h] # handler[h]) =>
            /\ handler'[h].sent =
                  << [correlationId |-> handler[h].msg.correlationId,
                      action |-> "TransactionEvent",
                      idTokenInfo |-> "none",
                      totalCost |-> handler[h].totalCost,
                      chargingPriority |-> <<>>,
                      updatedPersonalMessage |-> <<>>] >>
            /\ transactions' = transactions
            /\ meterValues' = meterValues
            /\ reservations' = reservations
            /\ tasks' = tasks

\* C19: the tariff-availability check of an Updated event without idToken has
\* no effect: whatever the device model holds for TariffCostCtrlr / Tariff /
\* Available (no attribute, or any value), the call result, the transaction
\* store, the reservation store and the armed tasks come out the same.
C19_TariffCheckNoEffect == []C19_State /\ [][C19_Step]_vars

\* C19 witness: an Updated event of an active transaction passed the tariff
\* check (the attribute is there and truthy) and was answered without personal
\* message.
C19_Witness ==
    \E h \in Handlers :
        /\ IsAnonymousEvent(h)
        /\ handler[h].msg.eventType = "Updated"
        /\ handler[h].pc = "done"
        /\ Count(handler[h].log, "debugTariff") = 1
        /\ handler[h].sent[1].updatedPersonalMessage = <<>>

\* The tariff check was not passed: no attribute, or one without value.
C19_NotSupportedReached ==
    \E h \in Handlers :
        /\ IsAnonymousEvent(h)
        /\ handler[h].msg.eventType = "Updated"
        /\ handler[h].pc = "done"
        /\ handler[h].transaction # <<>>
        /\ handler[h].transaction[1].isActive
        /\ deviceModel["CS1"] = <<"">>
        /\ Count(handler[h].log, "debugTariff") = 0

\* The handlers whose calculation derived a total for transaction dbId from
\* the meter values.
Derivers(dbId) ==
    { h \in Handlers :
        /\ Count(handler[h].log, "readMeterValues") > 0
        /\ handler[h].transaction[1].id = dbId }

\* A calculation for transaction dbId is in flight: it is about to read, or has
\* read and not yet written.
InFlight(dbId) ==
    \E h \in Handlers :
        /\ handler[h].pc \in {"cost", "costWrite"}
        /\ handler[h].transaction[1].id = dbId

\* The total derived by the last derivation for dbId. Meter values are only
\* ever added and each counts at least 0, so a later read derives no less than
\* an earlier one: the last derivation holds the greatest derived total.
LastDerived(dbId) ==
    CHOOSE k \in { handler[h].totalKwh[1] : h \in Derivers(dbId) } :
        \A h \in Derivers(dbId) : handler[h].totalKwh[1] <= k

\* C20 as stated: once no calculation for a transaction is in flight, the
\* cached totalKwh is the total derived by the last derivation: a total from a
\* later read of the meter values is never overwritten by one from an earlier
\* read.
C20_LastDerivationCached ==
    \A dbId \in 1 .. Len(transactions) :
        (Derivers(dbId) # {} /\ ~InFlight(dbId)) =>
            transactions[dbId].totalKwh = << LastDerived(dbId) >>

C20_State ==
    \A dbId \in 1 .. Len(transactions) :
        LET cached == transactions[dbId].totalKwh IN
        /\ cached # <<>> =>
              /\ \E h \in Derivers(dbId) :
                    /\ Count(handler[h].log, "updateTotalKwh") > 0
                    /\ handler[h].totalKwh = cached
              /\ cached[1] <= RecordedKwh(dbId)
        /\ \A h \in Derivers(dbId) : handler[h].totalKwh[1] <= RecordedKwh(dbId)

C20_Step ==
    \A h \in Handlers :
        (handler[h].pc = "costWrite" /\ handler'[h].pc # "costWrite") =>
            /\ transactions'[handler[h].transaction[1].id].totalKwh =
                  handler[h].totalKwh
            /\ handler'[h].totalKwh = handler[h].totalKwh
            /\ meterValues' = meterValues

\* C20, amended: the cached totalKwh is the total of the derivation that wrote
\* last, which need not be the one that read last: the cached total is always
\* a total that some finished derivation derived and wrote, it never exceeds
\* the total of the meter values recorded by now, and each write stores the
\* total its own calculation derived at its read, whatever was recorded or
\* written in between.
C20_SomeDerivationCached == []C20_State /\ [][C20_Step]_vars

\* C20 witness: two calculations interleaved and the update of the later read
\* was lost: nothing is in flight and the cached total is below the total of
\* the last derivation.
C20_Witness ==
    \E dbId \in 1 .. Len(transactions) :
        /\ Cardinality(Derivers(dbId)) >= 2
        /\ \A h \in Handlers : handler[h].pc \in {"idle", "done"}
        /\ transactions[dbId].totalKwh # <<>>
        /\ transactions[dbId].totalKwh[1] < LastDerived(dbId)

\* A step in which the tick of task t sends a CostUpdated request finds the
\* transaction of the task active in the store.
C21_SendStep ==
    \A t \in Handlers :
        Len(tasks'[t].calls) > Len(tasks[t].calls) =>
            LET transaction == readTransactionByStationIdAndTransactionId(
                                   transactions, tasks[t].stationId,
                                   tasks[t].transactionId)
            IN  transaction # <<>> /\ transaction[1].isActive

\* C21: a CostUpdated request is sent only while the transaction is active in
\* the store: in no interleaving of a tick with the handling of the Ended event
\* does the tick send CostUpdated after the transaction was deactivated.
C21_SentOnlyWhileActive == [][C21_SendStep]_vars

\* A tick has sent CostUpdated for a transaction it had read as active and
\* that the store holds as inactive.
C21_StalePushReached ==
    \E t \in Handlers :
        /\ tasks[t].armed
        /\ tasks[t].pc = "idle"
        /\ Len(tasks[t].calls) = 1
        /\ tasks[t].transaction[1].isActive
        /\ ~transactions[tasks[t].transaction[1].id].isActive

\* The handler in slot h handles a TransactionEvent that carries an idToken.
IsIdTokenEvent(h) ==
    /\ handler[h].msg.action = "TransactionEvent"
    /\ handler[h].msg.idToken # "none"

\* The calls of the branch without idToken.
AnonymousCalls ==
    {"readTransaction", "calculateTotalCost", "findTariff", "readMeterValues",
     "updateTotalKwh", "readDeviceModel", "debugTariff", "validateMeterValues",
     "warn"}

\* Position of the first x in seq, 0 when there is none.
IndexOf(seq, x) ==
    IF Count(seq, x) = 0 THEN 0
    ELSE CHOOSE i \in 1 .. Len(seq) :
            seq[i] = x /\ \A j \in 1 .. i - 1 : seq[j] # x

\* C22: when a TransactionEvent carries an idToken, the call result is exactly
\* the Authorization Service result for the event: the handler never reads the
\* tracked transaction, never computes or attaches totalCost (also for Ended
\* and Updated events), never validates meter-value signatures, never reads
\* the device model, and issues the response send before it arms the cost
\* updater.
C22_IdTokenPath ==
    \A h \in Handlers :
        IsIdTokenEvent(h) =>
            LET m == handler[h].msg
                log == handler[h].log
            IN  /\ handler[h].pc \in {"upsert", "reservation", "authorize", "done"}
                /\ \A c \in AnonymousCalls : Count(log, c) = 0
                /\ handler[h].transaction = <<>>
                /\ handler[h].totalKwh = <<>>
                /\ handler[h].totalCost = <<>>
                /\ handler[h].error = <<>>
                /\ handler[h].pc = "done" =>
                      /\ handler[h].sent =
                            << [correlationId |-> m.correlationId,
                                action |-> "TransactionEvent",
                                idTokenInfo |-> authorizeIdToken(m).idTokenInfo,
                                totalCost |-> <<>>,
                                chargingPriority |-> <<>>,
                                updatedPersonalMessage |-> <<>>] >>
                      /\ Count(log, "authorize") = 1
                      /\ Count(log, "sendCallResult") = 1
                      /\ IndexOf(log, "authorize") < IndexOf(log, "sendCallResult")
                /\ handler[h].pc # "done" =>
                      /\ handler[h].sent = <<>>
                      /\ Count(log, "updateCost") = 0
                      /\ ~tasks[h].armed
                /\ Count(log, "updateCost") > 0 =>
                      IndexOf(log, "sendCallResult") < IndexOf(log, "updateCost")
                /\ tasks[h].armed => Count(log, "updateCost") = 1

\* C22 witness: an Ended event with an accepted idToken and a meter value whose
\* signature is invalid, for a transaction the store holds, was answered with
\* the authorization result and no totalCost.
C22_Witness ==
    \E h \in Handlers :
        /\ IsIdTokenEvent(h)
        /\ handler[h].msg.eventType = "Ended"
        /\ handler[h].msg.meterValue = << <<InvalidMeterValue>> >>
        /\ handler[h].pc = "done"
        /\ Len(handler[h].sent) = 1
        /\ handler[h].sent[1].idTokenInfo = "Accepted"
        /\ handler[h].sent[1].totalCost = <<>>
        /\ \E i \in 1 .. Len(transactions) : transactions[i].totalKwh # <<>>

\* A Started event with an accepted idToken sent its response and then armed
\* the cost updater.
C22_ArmedAfterSendReached ==
    \E h \in Handlers :
        /\ IsIdTokenEvent(h)
        /\ handler[h].pc = "done"
        /\ tasks[h].armed
        /\ IndexOf(handler[h].log, "sendCallResult") + 1
             = IndexOf(handler[h].log, "updateCost")

\* A date is given and valid, or not given.
ValidOrAbsent(date) == date = <<>> \/ date[1] \in Times

\* What a read returns: the events of the station within the bounds given.
C23_ReadStep ==
    (securityRead' # securityRead
        /\ ValidOrAbsent(securityRead'.from) /\ ValidOrAbsent(securityRead'.to)) =>
        LET r == securityRead'
            within(e) ==
                IF r.from = <<>> /\ r.to = <<>> THEN TRUE
                ELSE IF r.from = <<>> THEN e.timestamp <= r.to[1]
                ELSE IF r.to = <<>> THEN e.timestamp >= r.from[1]
                ELSE r.from[1] <= e.timestamp /\ e.timestamp <= r.to[1]
        IN  /\ r.error = <<>>
            /\ r.rows = { e \in securityEvents :
                            e.stationId = r.stationId /\ within(e) }

\* C23: readByStationIdAndTimestamps(stationId, from, to) selects exactly the
\* security events of that stationId whose timestamp satisfies: no constraint
\* when both bounds are absent; timestamp <= to when only to is given;
\* timestamp >= from when only from is given; from <= timestamp <= to, both
\* ends included, when both are given; events of other stations are never
\* returned.
C23_SelectsWithinBounds == [][C23_ReadStep]_vars

\* C23 witness: a read with both bounds returned the events at both ends and
\* left out an earlier one, a later one and one of the other station; the
\* lower bound is the epoch.
C23_Witness ==
    /\ securityRead.stationId = "CS1"
    /\ securityRead.from = <<0>>
    /\ securityRead.to = <<1>>
    /\ securityRead.rows = { [stationId |-> "CS1", timestamp |-> 0],
                             [stationId |-> "CS1", timestamp |-> 1] }
    /\ [stationId |-> "CS1", timestamp |-> 2] \in securityEvents
    /\ [stationId |-> "CS2", timestamp |-> 1] \in securityEvents

\* A read with an upper bound alone.
C23_OnlyToReached ==
    /\ securityRead.stationId = "CS1"
    /\ securityRead.from = <<>>
    /\ securityRead.to = <<0>>
    /\ securityRead.rows = { [stationId |-> "CS1", timestamp |-> 0] }
    /\ [stationId |-> "CS1", timestamp |-> 1] \in securityEvents

\* A read with an Invalid Date rejects.
C23_InvalidDateReached ==
    /\ securityRead.from = <<NaN>>
    /\ securityRead.error = <<"RangeError">>

====
